---- MODULE Spec2Model ----
(***************************************************************************)
(* Email classification-and-action pipeline of the school-management app.  *)
(*                                                                         *)
(* Spec        the three ingestion pipelines of the repository, one per    *)
(*             deployment variant:                                         *)
(*               "enhanced"  EnhancedEmailAI      (email-ai-enhanced.js)   *)
(*               "service"   EmailAIService       (email-ai-service.js)    *)
(*               "fetch"     EmailService.fetchNewEmails (emailService.js) *)
(*             Batch passes may overlap: setInterval fires monitorInbox /  *)
(*             checkInbox without awaiting the previous pass, and POST     *)
(*             /api/emails/fetch requests are served concurrently.  Every  *)
(*             await of the source is a separate step.                     *)
(* SpecReview  the operations on the stored Email document of              *)
(*             models/Email.js (manual process endpoint, flags, notes,     *)
(*             respond, link, escalate), run by concurrent requests that   *)
(*             each hold their own in-memory copy of the document.         *)
(***************************************************************************)
EXTENDS Integers, Sequences, FiniteSets, TLC

\* ------------------------------------------------------------------ bounds
MaxPasses == 2          \* batch passes (ticks / manual fetches) per behaviour
MaxRequests == 3        \* requests on stored emails per behaviour

Messages == {1, 2}        \* provider messages in the inbox
Slots == 1..2                \* batch passes that can be in flight at the same time
Variants == {"enhanced", "service", "fetch"}

\* ------------------------------------------------------- program constants
MaxResultsEnhanced == 20
MaxResultsService == 10
MaxResultsFetch == 100

VARIABLES
  variant,        \* which ingestion pipeline this deployment runs
  initialized,    \* EmailService.initialized
  unread,         \* provider: messages carrying the UNREAD label
  emails,         \* the emails collection, in insertion order
  waitlist,       \* the waitlists collection, in insertion order
  important,      \* provider: messages labelled IMPORTANT/STARRED
  outbox,         \* Mailer: number of auto-replies sent for each message
  reply,          \* classifier: the answer the model gives for each message
  passes,         \* number of batch passes started so far
  pc,             \* per slot: position of the pass in its code
  batch,          \* per slot: the listing the pass iterates over
  cur,            \* per slot: index into batch of the message in hand
  analysis,       \* per slot: the analysis held for the message in hand
  existedAtStart, \* per slot: a record of the message existed when its run began
  classified,     \* per slot: classifier call of this run: "no", "ok" or "failed"
  created,        \* per slot: this run inserted the record of the message
  lost,           \* per slot: an insert of this pass lost to the unique index
  skipped,        \* per slot: a run of this pass returned at the existence check
  surfaced,       \* per slot: error the pass threw to its caller ("none" if none)
  tick,           \* per slot: number of the pass the slot runs (0 before its first)
  failedAt,       \* number of the first pass in which something threw (0 if none)
  labels,         \* provider: number of labels held under each label name
  attempted,      \* per message: the side-effect calls made for it, and "conflict"
                  \* when labels.create was refused because the name existed
  rpc,            \* per request: position of the request handler
  rop,            \* per request: the operation it runs
  rid,            \* per request: _id of the Email it works on
  rdoc,           \* per request: its in-memory copy of the Email
  rmod,           \* per request: the modified paths of its copy
  rin,            \* per request: the request's input
  rstatus,        \* per request: HTTP status of the last response (0 if none)
  clock,          \* logical time, for processedAt
  last,           \* the last operation issued on the emails collection by a request
  bodyLen,        \* prompt: length in characters of the body of the message in hand
  promptBody,     \* prompt: length of the body portion of the last prompt built
  prompted,       \* prompt: the method that built the last prompt ("none" if none)
  user,           \* auth: the stored User document: loginAttempts, lockUntil (0: unset)
  lpc,            \* auth: per login request, the position of the handler
  luser,          \* auth: per login request, its copy of the User as loaded
  dateNow         \* auth: Date.now(), in hours

ingestVars == <<variant, initialized, reply, unread, emails, waitlist, important, outbox,
                passes, pc, batch, cur, analysis, existedAtStart, classified,
                created, lost, skipped, surfaced, tick, failedAt, labels,
                attempted>>
requestVars == <<rpc, rop, rid, rdoc, rmod, rin, rstatus, clock, last>>
promptVars == <<bodyLen, promptBody, prompted>>
authVars == <<user, lpc, luser, dateNow>>
\* what no step of an ingestion pass changes
reviewVars == <<requestVars, promptVars, authVars>>
vars == <<ingestVars, reviewVars>>

\* ----------------------------------------------------------------- helpers
\* the messages of set S in the order of a listing (ascending ids): the i-th is
\* the one with i - 1 messages of S before it
SetToSeq(S) ==
  [i \in 1..Cardinality(S) |-> CHOOSE x \in S : Cardinality({y \in S : y < x}) = i - 1]

Take(s, n) == IF Len(s) <= n THEN s ELSE SubSeq(s, 1, n)

\* Email.findOne({ messageId }): the records of the collection with that messageId
DocsOf(m) == {i \in DOMAIN emails : emails[i].messageId = m}
findOne(m) == DocsOf(m) # {}

Msg(p) == batch[p][cur[p]]
HasDoc(coll, m) == \E i \in DOMAIN coll : coll[i].messageId = m

\* emailSchema.messageId { unique: true }: an insert is refused (E11000) when a
\* record with the same messageId is already in the collection.  All three
\* Email schemas declare the same unique index.
UniqueIndexNone(m) == TRUE
UniqueIndexOk(m) == ~findOne(m)

NoAnalysis == [category |-> "", urgency |-> "", requiresAction |-> FALSE,
               folderLabel |-> "", shouldAutoRespond |-> FALSE,
               suggestedResponse |-> "", extractedData |-> "none"]

\* -------- begin the run of processEmail for message i of listing b, or end the pass
BeginRun(p, b, i, coll, first) ==
  /\ batch' = [batch EXCEPT ![p] = b]
  /\ classified' = [classified EXCEPT ![p] = "no"]
  /\ created' = [created EXCEPT ![p] = FALSE]
  /\ analysis' = [analysis EXCEPT ![p] = NoAnalysis]
  /\ IF i <= Len(b)
     THEN /\ pc' = [pc EXCEPT ![p] = first]
          /\ cur' = [cur EXCEPT ![p] = i]
          /\ existedAtStart' = [existedAtStart EXCEPT ![p] = HasDoc(coll, b[i])]
     ELSE /\ pc' = [pc EXCEPT ![p] = "idle"]
          /\ cur' = [cur EXCEPT ![p] = Len(b) + 1]
          /\ existedAtStart' = [existedAtStart EXCEPT ![p] = FALSE]

\* the pass ends at message cur[p] by throwing `err` to its caller
Throw(p, err) ==
  /\ pc' = [pc EXCEPT ![p] = "idle"]
  /\ surfaced' = [surfaced EXCEPT ![p] = err]
  /\ analysis' = [analysis EXCEPT ![p] = NoAnalysis]
  /\ UNCHANGED <<batch, cur, classified, created, existedAtStart>>

\* something threw in pass n: the first such pass is remembered
Failed(n) == failedAt' = IF failedAt = 0 THEN n ELSE failedAt

\* monitorInbox's and checkInbox's catch: the error is logged, the pass resolves
MonitorInboxRethrow(err) == err
MonitorInboxCatch(err) == "none"

\* setInterval keeps calling the pass as long as the process lives; a pass that
\* rejected would be an unhandled rejection of the timer callback
SchedulerAlive == \A q \in Slots : surfaced[q] = "none"

\* ======================================================================
\* EnhancedEmailAI (email-ai-enhanced.js)
\* ======================================================================
EnhancedCategories == {"waitlist", "inquiry", "payment", "absence", "urgent", "general"}
EnhancedUrgencies == {"high", "medium", "low"}

\* the folderLabel values of the analyses
LabelNames == {"Waitlist", "General"}

\* extractedData of an analysis: "none" is null; otherwise the fields present
ExtractedData == {"none", "complete", "noChildName", "noParentEmail"}
HasChildName(x) == x \in {"complete", "noParentEmail"}
HasParentEmail(x) == x \in {"complete", "noChildName"}

\* what the language model may answer (JSON.parse succeeded): a recognized
\* category or one outside the enum, with or without extraction, either flag;
\* suggestedResponse is "" for null, "reply" for a response text and "review"
\* for a response that carries requiresReview: true
EnhancedOutput(c, u, r, a, x) ==
  [category |-> c, urgency |-> u, requiresAction |-> r,
   folderLabel |-> IF c = "waitlist" THEN "Waitlist" ELSE "General",
   shouldAutoRespond |-> a, suggestedResponse |-> IF a THEN "reply" ELSE "",
   extractedData |-> x]
EnhancedModelOutputs ==
  { EnhancedOutput("waitlist", "medium", FALSE, TRUE, "complete"),
    EnhancedOutput("waitlist", "medium", FALSE, FALSE, "noChildName"),
    EnhancedOutput("waitlist", "high", TRUE, FALSE, "noParentEmail"),
    EnhancedOutput("waitlist", "medium", TRUE, FALSE, "none"),
    EnhancedOutput("general", "high", FALSE, TRUE, "none"),
    EnhancedOutput("general", "medium", FALSE, FALSE, "complete"),
    EnhancedOutput("billing", "medium", FALSE, FALSE, "none"),
    [EnhancedOutput("inquiry", "low", TRUE, TRUE, "none")
       EXCEPT !.suggestedResponse = "review"] }

\* the answers to the messages of the mailbox: one message is an urgent general
\* email with a suggested reply, the other gets any of the answers
EnhancedReplies ==
  {f \in [Messages -> EnhancedModelOutputs] :
     \E m \in Messages : f[m] = EnhancedOutput("general", "high", FALSE, TRUE, "none")}

\* analyzeEmailWithAI's catch block: the default analysis
EnhancedDefaultAnalysis ==
  [category |-> "general", urgency |-> "medium", requiresAction |-> TRUE,
   folderLabel |-> "General", shouldAutoRespond |-> FALSE,
   suggestedResponse |-> "", extractedData |-> "none"]

\* new Email({...}) of processEmail
EnhancedEmailDoc(m, a) ==
  [messageId |-> m, category |-> a.category, urgency |-> a.urgency,
   extractedData |-> a.extractedData, requiresAction |-> a.requiresAction,
   aiResponse |-> a.suggestedResponse, folderLabel |-> a.folderLabel,
   processed |-> TRUE, actionTaken |-> ""]

\* schema validation of the enhanced Email (enum on category and urgency)
EnhancedEmailValid(d) ==
  d.category \in EnhancedCategories /\ d.urgency \in EnhancedUrgencies

\* waitlistSchema: parentEmail and childName are required
WaitlistValid(x) == HasParentEmail(x) /\ HasChildName(x)

\* the timer callbacks are anonymous: a new pass takes the lowest free slot
FreeSlot(p) == pc[p] = "idle" /\ \A q \in Slots : q < p => pc[q] # "idle"

\* startMonitoring / monitorInbox: the immediate call and every setInterval tick
\* start a pass without waiting for the previous one; the pass lists
\* messages.list({q: 'is:unread', maxResults: 20}); a failure of the listing is
\* caught and logged and the pass ends
Enhanced_monitorInbox(p) ==
  /\ variant = "enhanced" /\ FreeSlot(p) /\ passes < MaxPasses /\ SchedulerAlive
  /\ passes' = passes + 1
  /\ tick' = [tick EXCEPT ![p] = passes + 1]
  /\ lost' = [lost EXCEPT ![p] = FALSE]
  /\ skipped' = [skipped EXCEPT ![p] = FALSE]
  /\ \/ /\ BeginRun(p, Take(SetToSeq(unread), MaxResultsEnhanced), 1, emails, "find")
        /\ surfaced' = [surfaced EXCEPT ![p] = "none"]
        /\ UNCHANGED failedAt
     \/ /\ BeginRun(p, <<>>, 1, emails, "find")
        /\ surfaced' = [surfaced EXCEPT ![p] = MonitorInboxCatch("provider")]
        /\ Failed(passes + 1)
  /\ UNCHANGED <<variant, initialized, reply, labels, attempted, unread, emails, waitlist, important,
                 outbox, reviewVars>>

\* processEmail: existing = Email.findOne({messageId}); if (existing) return
DedupeSkipped(m) == FALSE
DedupeExisting(m) == findOne(m)

\* processEmail up to the existence check: messages.get and the header/body
\* extraction (a failure is caught by processEmail, which logs it and returns),
\* then the findOne and the early return
Enhanced_processEmail_findOne(p) ==
  /\ variant = "enhanced" /\ pc[p] = "find"
  /\ \/ /\ BeginRun(p, batch[p], cur[p] + 1, emails, "find")
        /\ Failed(tick[p])
        /\ UNCHANGED skipped
     \/ /\ IF DedupeExisting(Msg(p))
           THEN /\ BeginRun(p, batch[p], cur[p] + 1, emails, "find")
                /\ skipped' = [skipped EXCEPT ![p] = TRUE]
           ELSE /\ pc' = [pc EXCEPT ![p] = "analyze"]
                /\ UNCHANGED <<batch, cur, analysis, existedAtStart, classified, created,
                               skipped>>
        /\ UNCHANGED failedAt
  /\ UNCHANGED <<variant, initialized, reply, labels, attempted, tick, unread, emails, waitlist, important, outbox,
                 passes, lost, surfaced, reviewVars>>

\* analyzeEmailWithAI: the completion call and JSON.parse; any failure returns
\* the default analysis
Enhanced_analyzeEmailWithAI(p) ==
  /\ variant = "enhanced" /\ pc[p] = "analyze"
  /\ \/ /\ analysis' = [analysis EXCEPT ![p] = reply[Msg(p)]]
        /\ classified' = [classified EXCEPT ![p] = "ok"]
     \/ /\ analysis' = [analysis EXCEPT ![p] = EnhancedDefaultAnalysis]
        /\ classified' = [classified EXCEPT ![p] = "failed"]
  /\ pc' = [pc EXCEPT ![p] = "save"]
  /\ UNCHANGED <<variant, initialized, reply, labels, attempted, tick, failedAt, unread, emails, waitlist, important, outbox,
                 passes, batch, cur, existedAtStart, created, lost, skipped, surfaced, reviewVars>>

\* processEmail goes on at step next of the message in hand, or returns ("end")
\* and the pass turns to the next message of its listing
Continue(p, next) ==
  IF next = "end"
  THEN BeginRun(p, batch[p], cur[p] + 1, emails, "find")
  ELSE /\ pc' = [pc EXCEPT ![p] = next]
       /\ UNCHANGED <<batch, cur, analysis, existedAtStart, classified, created>>

\* processEmail's catch: an error thrown in the try block is logged and
\* processEmail returns, the steps after the throwing one (next, ...) are skipped
ProcessEmailCatchResume(next) == next
ProcessEmailCatch(next) == "end"

\* processEmail: emailDoc.save(); a validation error or a duplicate key is
\* thrown into processEmail's catch, which logs it and returns
Enhanced_processEmail_save(p) ==
  /\ variant = "enhanced" /\ pc[p] = "save"
  /\ LET d == EnhancedEmailDoc(Msg(p), analysis[p]) IN
     IF ~EnhancedEmailValid(d)
     THEN /\ Continue(p, ProcessEmailCatch("label"))
          /\ Failed(tick[p])
          /\ UNCHANGED <<emails, lost, skipped>>
     ELSE IF ~UniqueIndexOk(Msg(p))
     THEN /\ Continue(p, ProcessEmailCatch("label"))
          /\ Failed(tick[p])
          /\ lost' = [lost EXCEPT ![p] = TRUE]
          /\ UNCHANGED skipped
          /\ UNCHANGED emails
     ELSE /\ emails' = Append(emails, d)
          /\ created' = [created EXCEPT ![p] = TRUE]
          /\ pc' = [pc EXCEPT ![p] =
                IF analysis[p].category = "waitlist" /\ analysis[p].extractedData # "none"
                THEN "waitlist" ELSE "label"]
          /\ UNCHANGED <<batch, cur, analysis, existedAtStart, classified, lost, skipped,
                         failedAt>>
  /\ UNCHANGED <<variant, initialized, reply, labels, attempted, tick, unread, waitlist, important, outbox,
                 passes, surfaced, reviewVars>>

\* a failure inside saveWaitlistEntry, applyLabel, markAsImportant,
\* sendAutoResponse or sendResponse is caught and logged by the helper itself,
\* which returns normally: processEmail goes on at its next step
SideEffectRethrow(next) == "end"
SideEffectCatch(next) == next

\* the side-effect call `act` is made for the message in hand
Attempt(p, act) == attempted' = [attempted EXCEPT ![Msg(p)] = @ \cup {act}]

\* processEmail after applyLabel: if (urgency === 'high') markAsImportant, then
\* if (shouldAutoRespond && suggestedResponse) sendAutoResponse, then return
WantsImportant(a) == a.urgency = "high"
WantsAutoResponse(a) == a.shouldAutoRespond /\ a.suggestedResponse # ""
AfterImportant(a) == IF WantsAutoResponse(a) THEN "respond" ELSE "end"
AfterLabel(a) == IF WantsImportant(a) THEN "important" ELSE AfterImportant(a)

\* saveWaitlistEntry: new Waitlist({...status: 'pending'}).save(); a validation
\* error is caught and logged inside saveWaitlistEntry
Enhanced_saveWaitlistEntry(p) ==
  /\ variant = "enhanced" /\ pc[p] = "waitlist"
  /\ Attempt(p, "waitlist")
  /\ \/ /\ WaitlistValid(analysis[p].extractedData)
        /\ waitlist' = Append(waitlist, [emailId |-> Msg(p), status |-> "pending",
                                          data |-> analysis[p].extractedData])
        /\ Continue(p, "label")
     \/ /\ UNCHANGED waitlist
        /\ Continue(p, SideEffectCatch("label"))
  /\ UNCHANGED <<variant, initialized, reply, tick, failedAt, labels, unread, emails, important, outbox, passes,
                 lost, skipped, surfaced, reviewVars>>

\* applyLabel's last call: messages.modify adds the label and removes UNREAD;
\* a provider failure is caught and logged inside applyLabel
Modify(p) ==
  \/ /\ unread' = unread \ {Msg(p)}
     /\ Continue(p, AfterLabel(analysis[p]))
  \/ /\ UNCHANGED unread
     /\ Continue(p, SideEffectCatch(AfterLabel(analysis[p])))

\* applyLabel: labels.list() and the search for the label name; when the label
\* is in the list it is applied, else applyLabel goes on to create it; any
\* provider failure is caught and logged inside applyLabel
Enhanced_applyLabel(p) ==
  /\ variant = "enhanced" /\ pc[p] = "label"
  /\ Attempt(p, "label")
  /\ \/ IF labels[analysis[p].folderLabel] > 0
        THEN Modify(p)
        ELSE Continue(p, "create") /\ UNCHANGED unread
     \/ /\ Continue(p, SideEffectCatch(AfterLabel(analysis[p])))
        /\ UNCHANGED unread
  /\ UNCHANGED <<variant, initialized, reply, tick, failedAt, labels, emails, waitlist, important, outbox, passes,
                 lost, skipped, surfaced, reviewVars>>

\* applyLabel, the label was not in the list: labels.create({name}), then the
\* label is applied.  When the name was created meanwhile the provider either
\* refuses the request (the error is caught, the label is not applied) or
\* creates a second label of that name
Enhanced_applyLabel_create(p) ==
  /\ variant = "enhanced" /\ pc[p] = "create"
  /\ LET n == analysis[p].folderLabel IN
     \/ /\ labels[n] = 0
        /\ labels' = [labels EXCEPT ![n] = 1]
        /\ Modify(p)
        /\ UNCHANGED attempted
     \/ /\ labels[n] > 0
        /\ \/ /\ Attempt(p, "conflict")
              /\ Continue(p, SideEffectCatch(AfterLabel(analysis[p])))
              /\ UNCHANGED <<labels, unread>>
           \/ /\ labels' = [labels EXCEPT ![n] = @ + 1]
              /\ Modify(p)
              /\ UNCHANGED attempted
     \/ /\ Continue(p, SideEffectCatch(AfterLabel(analysis[p])))
        /\ UNCHANGED <<labels, attempted, unread>>
  /\ UNCHANGED <<variant, initialized, reply, tick, failedAt, emails, waitlist, important, outbox, passes,
                 lost, skipped, surfaced, reviewVars>>

\* markAsImportant: messages.modify adds IMPORTANT and STARRED; failure is caught
Enhanced_markAsImportant(p) ==
  /\ variant = "enhanced" /\ pc[p] = "important"
  /\ Attempt(p, "important")
  /\ \/ /\ important' = important \cup {Msg(p)}
        /\ Continue(p, AfterImportant(analysis[p]))
     \/ /\ UNCHANGED important
        /\ Continue(p, SideEffectCatch(AfterImportant(analysis[p])))
  /\ UNCHANGED <<variant, initialized, reply, tick, failedAt, labels, unread, emails, waitlist, outbox, passes,
                 lost, skipped, surfaced, reviewVars>>

\* sendAutoResponse: transporter.sendMail; failure is caught and logged
Enhanced_sendAutoResponse(p) ==
  /\ variant = "enhanced" /\ pc[p] = "respond"
  /\ Attempt(p, "respond")
  /\ \/ outbox' = [outbox EXCEPT ![Msg(p)] = @ + 1]
     \/ UNCHANGED outbox
  /\ Continue(p, "end")
  /\ UNCHANGED <<variant, initialized, reply, tick, failedAt, labels, unread, emails, waitlist, important, passes,
                 lost, skipped, surfaced, reviewVars>>

\* ======================================================================
\* EmailAIService (backend/services/email-ai-service.js)
\* ======================================================================
ServiceCategories == {"inquiry", "payment", "absence", "general", "urgent"}

\* what the language model may answer to analyzeEmail's prompt
ServiceOutput(c, r, a) ==
  [category |-> c, urgency |-> "", requiresAction |-> r, folderLabel |-> "",
   shouldAutoRespond |-> a, suggestedResponse |-> IF a THEN "reply" ELSE "",
   extractedData |-> "none"]
ServiceModelOutputs ==
  { ServiceOutput("inquiry", FALSE, TRUE),
    ServiceOutput("urgent", TRUE, FALSE),
    ServiceOutput("billing", FALSE, FALSE) }

\* analyzeEmail's catch block: the default analysis
ServiceDefaultAnalysis == ServiceOutput("general", TRUE, FALSE)

\* new Email({...}) of processEmail
ServiceEmailDoc(m, a) ==
  [messageId |-> m, category |-> a.category, requiresAction |-> a.requiresAction,
   aiResponse |-> a.suggestedResponse, processed |-> TRUE, actionTaken |-> ""]

\* schema validation of the Email of models-combined.js (enum on category)
ServiceEmailValid(d) == d.category \in ServiceCategories

\* startMonitoring / checkInbox: as monitorInbox, with maxResults: 10
Service_checkInbox(p) ==
  /\ variant = "service" /\ FreeSlot(p) /\ passes < MaxPasses /\ SchedulerAlive
  /\ passes' = passes + 1
  /\ tick' = [tick EXCEPT ![p] = passes + 1]
  /\ lost' = [lost EXCEPT ![p] = FALSE]
  /\ skipped' = [skipped EXCEPT ![p] = FALSE]
  /\ \/ /\ BeginRun(p, Take(SetToSeq(unread), MaxResultsService), 1, emails, "find")
        /\ surfaced' = [surfaced EXCEPT ![p] = "none"]
        /\ UNCHANGED failedAt
     \/ /\ BeginRun(p, <<>>, 1, emails, "find")
        /\ surfaced' = [surfaced EXCEPT ![p] = MonitorInboxCatch("provider")]
        /\ Failed(passes + 1)
  /\ UNCHANGED <<variant, initialized, reply, labels, attempted, unread, emails, waitlist, important,
                 outbox, reviewVars>>

\* processEmail up to the existence check: messages.get (a failure is caught by
\* processEmail), then the findOne and the early return
Service_processEmail_findOne(p) ==
  /\ variant = "service" /\ pc[p] = "find"
  /\ \/ /\ BeginRun(p, batch[p], cur[p] + 1, emails, "find")
        /\ Failed(tick[p])
        /\ UNCHANGED skipped
     \/ /\ IF DedupeExisting(Msg(p))
           THEN /\ BeginRun(p, batch[p], cur[p] + 1, emails, "find")
                /\ skipped' = [skipped EXCEPT ![p] = TRUE]
           ELSE /\ pc' = [pc EXCEPT ![p] = "analyze"]
                /\ UNCHANGED <<batch, cur, analysis, existedAtStart, classified, created,
                               skipped>>
        /\ UNCHANGED failedAt
  /\ UNCHANGED <<variant, initialized, reply, labels, attempted, tick, unread, emails, waitlist, important, outbox,
                 passes, lost, surfaced, reviewVars>>

\* analyzeEmail: the completion call and JSON.parse; any failure returns the
\* default analysis
Service_analyzeEmail(p) ==
  /\ variant = "service" /\ pc[p] = "analyze"
  /\ \/ /\ analysis' = [analysis EXCEPT ![p] = reply[Msg(p)]]
        /\ classified' = [classified EXCEPT ![p] = "ok"]
     \/ /\ analysis' = [analysis EXCEPT ![p] = ServiceDefaultAnalysis]
        /\ classified' = [classified EXCEPT ![p] = "failed"]
  /\ pc' = [pc EXCEPT ![p] = "save"]
  /\ UNCHANGED <<variant, initialized, reply, labels, attempted, tick, failedAt, unread, emails, waitlist, important, outbox,
                 passes, batch, cur, existedAtStart, created, lost, skipped, surfaced, reviewVars>>

\* processEmail: emailDoc.save(); a validation error or a duplicate key is
\* thrown into processEmail's catch
Service_processEmail_save(p) ==
  /\ variant = "service" /\ pc[p] = "save"
  /\ LET d == ServiceEmailDoc(Msg(p), analysis[p]) IN
     IF ~ServiceEmailValid(d)
     THEN /\ Continue(p, ProcessEmailCatch("read"))
          /\ Failed(tick[p])
          /\ UNCHANGED <<emails, lost, skipped>>
     ELSE IF ~UniqueIndexOk(Msg(p))
     THEN /\ Continue(p, ProcessEmailCatch("read"))
          /\ Failed(tick[p])
          /\ lost' = [lost EXCEPT ![p] = TRUE]
          /\ UNCHANGED skipped
          /\ UNCHANGED emails
     ELSE /\ emails' = Append(emails, d)
          /\ created' = [created EXCEPT ![p] = TRUE]
          /\ pc' = [pc EXCEPT ![p] =
                IF WantsAutoResponse(analysis[p]) THEN "respond" ELSE "read"]
          /\ UNCHANGED <<batch, cur, analysis, existedAtStart, classified, lost, skipped,
                         failedAt>>
  /\ UNCHANGED <<variant, initialized, reply, labels, attempted, tick, unread, waitlist, important, outbox,
                 passes, surfaced, reviewVars>>

\* sendResponse: transporter.sendMail; failure is caught and logged inside
Service_sendResponse(p) ==
  /\ variant = "service" /\ pc[p] = "respond"
  /\ Attempt(p, "respond")
  /\ \/ /\ outbox' = [outbox EXCEPT ![Msg(p)] = @ + 1]
        /\ Continue(p, "save2")
     \/ /\ UNCHANGED outbox
        /\ Continue(p, SideEffectCatch("save2"))
  /\ UNCHANGED <<variant, initialized, reply, labels, tick, failedAt, unread, emails,
                 waitlist, important, passes, lost, skipped, surfaced, reviewVars>>

\* processEmail: emailDoc.actionTaken = 'auto-responded'; emailDoc.save()
\* updates the record this run inserted
Service_processEmail_save2(p) ==
  /\ variant = "service" /\ pc[p] = "save2"
  /\ emails' = [i \in DOMAIN emails |->
                  IF emails[i].messageId = Msg(p)
                  THEN [emails[i] EXCEPT !.actionTaken = "auto-responded"]
                  ELSE emails[i]]
  /\ pc' = [pc EXCEPT ![p] = "read"]
  /\ UNCHANGED <<variant, initialized, reply, labels, attempted, tick, failedAt, unread, waitlist, important, outbox, passes,
                 batch, cur, analysis, existedAtStart, classified, created, lost, skipped,
                 surfaced, reviewVars>>

\* processEmail: messages.modify removes UNREAD; a failure is thrown into
\* processEmail's catch; either way processEmail returns
Service_processEmail_markRead(p) ==
  /\ variant = "service" /\ pc[p] = "read"
  /\ \/ unread' = unread \ {Msg(p)} /\ UNCHANGED failedAt
     \/ UNCHANGED unread /\ Failed(tick[p])
  /\ Attempt(p, "read")
  /\ BeginRun(p, batch[p], cur[p] + 1, emails, "find")
  /\ UNCHANGED <<variant, initialized, reply, labels, tick, emails, waitlist, important,
                 outbox, passes, lost, skipped, surfaced, reviewVars>>

\* ======================================================================
\* Email model (models/Email.js) and EmailService.fetchNewEmails
\* ======================================================================
EmailCategories ==
  {"enrollment-inquiry", "parent-question", "payment-inquiry", "schedule-request",
   "complaint", "compliment", "urgent", "vendor", "spam", "newsletter",
   "administrative", "tour-request", "general", "unclassified"}

\* new Email(emailData): the schema defaults; processedAt = 0 stands for unset,
\* priorityReason = "" and escalationLevel = 0 for undefined; confidence and
\* sentimentScore are kept in hundredths (85 is 0.85)
NewEmail(m) ==
  [messageId |-> m, processed |-> FALSE, processedAt |-> 0,
   category |-> "unclassified", priority |-> "normal", priorityReason |-> "",
   escalationLevel |-> 0, isRead |-> FALSE, isImportant |-> FALSE,
   requiresAction |-> FALSE, responseStatus |-> "pending", notes |-> 0,
   errors |-> 0, linked |-> FALSE, confidence |-> 0, sentimentScore |-> 0]

\* fetchNewEmails: throws when the service is not initialized; lists
\* messages.list({q: 'after:<24h ago>', maxResults: 100}); a failure of the
\* listing is logged and rethrown to the caller
Fetch_fetchNewEmails(p) ==
  /\ variant = "fetch" /\ FreeSlot(p) /\ passes < MaxPasses
  /\ passes' = passes + 1
  /\ tick' = [tick EXCEPT ![p] = passes + 1]
  /\ lost' = [lost EXCEPT ![p] = FALSE]
  /\ skipped' = [skipped EXCEPT ![p] = FALSE]
  /\ IF ~initialized
     THEN /\ surfaced' = [surfaced EXCEPT ![p] = "not-initialized"]
          /\ Failed(passes + 1)
          /\ batch' = [batch EXCEPT ![p] = <<>>]
          /\ cur' = [cur EXCEPT ![p] = 0]
          /\ UNCHANGED <<pc, analysis, classified, created, existedAtStart>>
     ELSE \/ /\ surfaced' = [surfaced EXCEPT ![p] = "none"]
             /\ BeginRun(p, Take(SetToSeq(Messages), MaxResultsFetch), 1, emails, "find")
             /\ UNCHANGED failedAt
          \/ /\ surfaced' = [surfaced EXCEPT ![p] = "provider"]
             /\ Failed(passes + 1)
             /\ batch' = [batch EXCEPT ![p] = <<>>]
             /\ cur' = [cur EXCEPT ![p] = 0]
             /\ UNCHANGED <<pc, analysis, classified, created, existedAtStart>>
  /\ UNCHANGED <<variant, initialized, reply, labels, attempted, unread, emails, waitlist, important,
                 outbox, reviewVars>>

\* the loop body up to the existence check: fetchEmailDetails (a failure is
\* logged and rethrown, and fetchNewEmails rethrows it to its caller), then
\* existingEmail = Email.findOne({messageId})
Fetch_findOne(p) ==
  /\ variant = "fetch" /\ pc[p] = "find"
  /\ \/ /\ Throw(p, "provider")
        /\ Failed(tick[p])
        /\ UNCHANGED skipped
     \/ /\ IF DedupeExisting(Msg(p))
           THEN /\ BeginRun(p, batch[p], cur[p] + 1, emails, "find")
                /\ skipped' = [skipped EXCEPT ![p] = TRUE]
           ELSE /\ pc' = [pc EXCEPT ![p] = "save"]
                /\ UNCHANGED <<batch, cur, analysis, existedAtStart, classified,
                               created, skipped>>
        /\ UNCHANGED <<surfaced, failedAt>>
  /\ UNCHANGED <<variant, initialized, reply, labels, attempted, tick, unread, emails, waitlist, important, outbox,
                 passes, lost, reviewVars>>

\* email = new Email(emailData); email.save(): a duplicate key is thrown into
\* fetchNewEmails' catch, which logs it and rethrows it to the caller
Fetch_save(p) ==
  /\ variant = "fetch" /\ pc[p] = "save"
  /\ IF ~UniqueIndexOk(Msg(p))
     THEN /\ Throw(p, "E11000")
          /\ Failed(tick[p])
          /\ lost' = [lost EXCEPT ![p] = TRUE]
          /\ UNCHANGED skipped
          /\ UNCHANGED emails
     ELSE /\ emails' = Append(emails, NewEmail(Msg(p)))
          /\ BeginRun(p, batch[p], cur[p] + 1, emails', "find")
          /\ UNCHANGED <<lost, skipped, surfaced, failedAt>>
  /\ UNCHANGED <<variant, initialized, reply, labels, attempted, tick, unread, waitlist, important, outbox,
                 passes, reviewVars>>

\* ======================================================================
\* Operations on a stored Email (models/Email.js, routes/emails.js,
\* AIService.processEmail), each run by a request that holds its own copy
\* ======================================================================
ingestRest == <<variant, initialized, reply, unread, waitlist, important, outbox,
                passes, pc, batch, cur, analysis, existedAtStart, classified,
                created, lost, skipped, surfaced, tick, failedAt, labels,
                attempted, promptVars, authVars>>

PriorityLevels == <<"low", "normal", "high", "urgent">>
Priorities == {PriorityLevels[i] : i \in DOMAIN PriorityLevels}

\* priorityLevels.indexOf(x), 0-based; -1 when x is not in the array
IndexOf(x) == IF x \in Priorities
              THEN (CHOOSE i \in DOMAIN PriorityLevels : PriorityLevels[i] = x) - 1
              ELSE -1

\* what the language model may answer to generateEmailAnalysisPrompt (JSON.parse
\* succeeded); "absent" marks a key the answer does not carry
ReviewOutput(c, u, why, pr, conf, sent) ==
  [category |-> c, priority |-> u, priorityReason |-> why, processed |-> pr,
   confidence |-> conf, sentimentScore |-> sent]
ReviewModelOutputs ==
  { ReviewOutput("enrollment-inquiry", "high", "model", "absent", 85, 20),
    ReviewOutput("general", "low", "absent", "absent", 85, 20),
    ReviewOutput("billing", "normal", "model", "absent", 85, 20),
    ReviewOutput("absent", "urgent", "model", "false", 85, 20),
    ReviewOutput("general", "low", "absent", "absent", 150, -150) }

NoInput == [category |-> "absent", priority |-> "absent",
            priorityReason |-> "absent", processed |-> "absent", reason |-> "", isRead |-> "-", isImportant |-> "-",
            requiresAction |-> "-", confidence |-> 0, sentimentScore |-> 0]

\* request bodies of PATCH /:id/flags ("-" marks a flag the body does not carry)
FlagBodies ==
  { [NoInput EXCEPT !.isRead = "T"],
    [NoInput EXCEPT !.isImportant = "F", !.requiresAction = "F"],
    [NoInput EXCEPT !.requiresAction = "T"] }

EscalateReasons == {"overdue", "complaint"}

AiProcessingPaths == {"processed", "processedAt", "category", "priority",
                      "priorityReason", "confidence", "sentimentScore"}

\* schema validation of the Email: the enums of aiProcessing.category and
\* aiProcessing.priority, min and max of confidence (0, 1) and of
\* sentimentScore (-1, 1)
EmailValidNoEnum(d) == TRUE
EmailValid(d) ==
  /\ d.category \in EmailCategories /\ d.priority \in Priorities
  /\ d.confidence >= 0 /\ d.confidence <= 100
  /\ d.sentimentScore >= -100 /\ d.sentimentScore <= 100

\* markAsProcessed: this.aiProcessing = {...this.aiProcessing, ...aiResults,
\* processed: true, processedAt: new Date()}
MarkAsProcessed(d, a, now) ==
  [d EXCEPT !.category = IF a.category = "absent" THEN @ ELSE a.category,
            !.priority = IF a.priority = "absent" THEN @ ELSE a.priority,
            !.priorityReason = IF a.priorityReason = "absent" THEN @
                               ELSE a.priorityReason,
            !.confidence = a.confidence,
            !.sentimentScore = a.sentimentScore,
            !.processed = TRUE,
            !.processedAt = now]

\* escalate(reason), on the document it is called on
EscalateSkip(d, reason) ==
  LET currentIndex == IndexOf(d.priority) IN
  IF currentIndex < Len(PriorityLevels) - 2
  THEN [d EXCEPT !.priority = PriorityLevels[(currentIndex + 2) + 1],
                 !.priorityReason = reason,
                 !.escalationLevel = @ + 1]
  ELSE d
Escalate(d, reason) ==
  LET currentIndex == IndexOf(d.priority) IN
  IF currentIndex < Len(PriorityLevels) - 1
  THEN [d EXCEPT !.priority = PriorityLevels[(currentIndex + 1) + 1],
                 !.priorityReason = reason,
                 !.escalationLevel = @ + 1]
  ELSE d

\* addResponse(responseData, userId)
AddResponse(d) == [d EXCEPT !.responseStatus = "sent", !.requiresAction = FALSE]

\* emailSchema.pre('save'): urgent and high priority set the two flags
PreSave(d) ==
  IF d.priority = "urgent" \/ d.priority = "high"
  THEN [d EXCEPT !.requiresAction = TRUE, !.isImportant = TRUE]
  ELSE d

\* the paths of document d that differ from the copy as it was loaded
Changed(d, loaded) == {f \in DOMAIN d : d[f] # loaded[f]}

\* document.save(): the modified paths of the copy are written over the stored
\* document ($set); pushes to the note and error arrays are applied to the
\* stored arrays ($push)
SaveWholeDocument(stored, d, mod, pushes) == d
Save(stored, d, mod, pushes) ==
  [f \in DOMAIN stored |->
     IF f \in {"notes", "errors"} THEN stored[f] + (IF f \in pushes THEN 1 ELSE 0)
     ELSE IF f \in mod THEN d[f] ELSE stored[f]]

\* a request starts: findById loads the document and the handler goes on at
\* `next` (or answers st at once); 404 when there is no such document
Load(r, op, id, input, next, st) ==
  /\ rpc[r] = "idle" /\ clock < MaxRequests
  /\ clock' = clock + 1
  /\ rop' = [rop EXCEPT ![r] = op]
  /\ rid' = [rid EXCEPT ![r] = id]
  /\ rin' = [rin EXCEPT ![r] = input]
  /\ rmod' = [rmod EXCEPT ![r] = {}]
  /\ IF id \in DOMAIN emails
     THEN /\ rdoc' = [rdoc EXCEPT ![r] = emails[id]]
          /\ rpc' = [rpc EXCEPT ![r] = next]
          /\ rstatus' = [rstatus EXCEPT ![r] = st]
     ELSE /\ rdoc' = [rdoc EXCEPT ![r] = NewEmail(0)]
          /\ rpc' = [rpc EXCEPT ![r] = "idle"]
          /\ rstatus' = [rstatus EXCEPT ![r] = 404]

\* the request ends with HTTP status st
Respond(r, st) ==
  /\ rpc' = [rpc EXCEPT ![r] = "idle"]
  /\ rstatus' = [rstatus EXCEPT ![r] = st]
  /\ UNCHANGED <<rop, rid, rin, clock>>

\* the save of request r's copy d: the pre-save hook runs on the copy, then the
\* modified paths and the array pushes are written
Write(r, d, pushes, op) ==
  /\ emails' = [emails EXCEPT ![rid[r]] =
        Save(@, PreSave(d), Changed(PreSave(d), rdoc[r]) \cup rmod[r], pushes)]
  /\ rdoc' = [rdoc EXCEPT ![r] = PreSave(d)]
  /\ last' = op

Ids == 1..2

\* GET /:id: findById, 404 when missing; an unread email is marked read and
\* saved, a read one is returned as it is
Get_findById(r) ==
  /\ \E id \in Ids :
       LET isRead == id \in DOMAIN emails /\ emails[id].isRead IN
       Load(r, "get", id, NoInput, IF isRead THEN "idle" ELSE "read",
            IF isRead THEN 200 ELSE 0)
  /\ UNCHANGED <<emails, last, ingestRest>>

Get_markRead(r) ==
  /\ rpc[r] = "read"
  /\ Write(r, [rdoc[r] EXCEPT !.isRead = TRUE], {}, "markRead")
  /\ Respond(r, 200)
  /\ UNCHANGED <<rmod, ingestRest>>

\* POST /:id/process: findById, 404 when missing, 400 when the copy is already
\* processed, else aiService.processEmail(email)
Process_findById(r) ==
  /\ \E id \in Ids :
       LET done == id \in DOMAIN emails /\ emails[id].processed IN
       Load(r, "process", id, NoInput, IF done THEN "idle" ELSE "classify",
            IF done THEN 400 ELSE 0)
  /\ UNCHANGED <<emails, last, ingestRest>>

\* AIService.processEmail: the completion call and JSON.parse; a failure is
\* thrown into processEmail's catch
AIService_processEmail_classify(r) ==
  /\ rpc[r] = "classify"
  /\ \/ \E a \in ReviewModelOutputs :
          /\ rin' = [rin EXCEPT ![r] = [NoInput EXCEPT !.category = a.category,
                                        !.priority = a.priority,
                                        !.priorityReason = a.priorityReason,
                                        !.processed = a.processed,
                                        !.confidence = a.confidence,
                                        !.sentimentScore = a.sentimentScore]]
          /\ rpc' = [rpc EXCEPT ![r] = "mark"]
     \/ /\ rpc' = [rpc EXCEPT ![r] = "catch"]
        /\ UNCHANGED rin
  /\ UNCHANGED <<emails, last, rop, rid, rdoc, rmod, rstatus, clock, ingestRest>>

\* AIService.processEmail: email.markAsProcessed({...analysis}); the save
\* validates the copy and a validation error is thrown into processEmail's
\* catch, the copy keeping what markAsProcessed assigned
AIService_markAsProcessed(r) ==
  /\ rpc[r] = "mark"
  /\ LET d == MarkAsProcessed(rdoc[r], rin[r], clock) IN
     IF EmailValid(d)
     THEN /\ emails' = [emails EXCEPT ![rid[r]] =
                Save(@, PreSave(d), AiProcessingPaths \cup Changed(PreSave(d), rdoc[r]),
                     {})]
          /\ rdoc' = [rdoc EXCEPT ![r] = PreSave(d)]
          /\ last' = "markAsProcessed"
          /\ Respond(r, 200)
          /\ UNCHANGED rmod
     ELSE /\ rdoc' = [rdoc EXCEPT ![r] = d]
          /\ rmod' = [rmod EXCEPT ![r] = AiProcessingPaths]
          /\ rpc' = [rpc EXCEPT ![r] = "catch"]
          /\ UNCHANGED <<emails, last, rop, rid, rin, rstatus, clock>>
  /\ UNCHANGED ingestRest

\* AIService.processEmail's catch: email.errors.push({...}); email.save(); throw.
\* The save validates the copy again: when the copy is invalid it throws and
\* nothing is written.  The request ends with an error either way.
AIService_processEmail_catch(r) ==
  /\ rpc[r] = "catch"
  /\ IF EmailValid(rdoc[r])
     THEN Write(r, rdoc[r], {"errors"}, "recordError")
     ELSE UNCHANGED <<emails, last, rdoc>>
  /\ Respond(r, 500)
  /\ UNCHANGED <<rmod, ingestRest>>

\* PATCH /:id/flags: Email.findByIdAndUpdate(id, {'flags.x': v, ...}); one
\* atomic update, no save hook
Flags_update(r) ==
  /\ \E id \in Ids, body \in FlagBodies :
       /\ Load(r, "flags", id, body, "idle", 200)
       /\ IF id \in DOMAIN emails
          THEN /\ emails' = [emails EXCEPT ![id] =
                     [@ EXCEPT !.isRead = IF body.isRead = "-" THEN @ ELSE body.isRead = "T",
                               !.isImportant = IF body.isImportant = "-" THEN @
                                               ELSE body.isImportant = "T",
                               !.requiresAction = IF body.requiresAction = "-" THEN @
                                                  ELSE body.requiresAction = "T"]]
               /\ last' = "flags"
          ELSE UNCHANGED <<emails, last>>
  /\ UNCHANGED ingestRest

\* POST /:id/notes: findById, then addInternalNote pushes the note and saves
Notes_findById(r) ==
  /\ \E id \in Ids : Load(r, "notes", id, NoInput, "note", 0)
  /\ UNCHANGED <<emails, last, ingestRest>>

Notes_addInternalNote(r) ==
  /\ rpc[r] = "note"
  /\ Write(r, rdoc[r], {"notes"}, "addInternalNote")
  /\ Respond(r, 201)
  /\ UNCHANGED <<rmod, ingestRest>>

\* POST /:id/respond: findById, emailService.sendEmail (a failure ends the
\* request with an error), then email.addResponse(responseData, userId)
Respond_findById(r) ==
  /\ \E id \in Ids : Load(r, "respond", id, NoInput, "send", 0)
  /\ UNCHANGED <<emails, last, ingestRest>>

Respond_sendEmail(r) ==
  /\ rpc[r] = "send"
  /\ \/ /\ rpc' = [rpc EXCEPT ![r] = "addResponse"]
        /\ UNCHANGED <<rstatus, rop, rid, rin, clock>>
     \/ Respond(r, 500)
  /\ UNCHANGED <<emails, last, rdoc, rmod, ingestRest>>

Respond_addResponse(r) ==
  /\ rpc[r] = "addResponse"
  /\ Write(r, AddResponse(rdoc[r]), {}, "addResponse")
  /\ Respond(r, 200)
  /\ UNCHANGED <<rmod, ingestRest>>

\* PATCH /:id/link: findById, then linkToContact sets the two references and saves
Link_findById(r) ==
  /\ \E id \in Ids : Load(r, "link", id, NoInput, "link", 0)
  /\ UNCHANGED <<emails, last, ingestRest>>

Link_linkToContact(r) ==
  /\ rpc[r] = "link"
  /\ Write(r, [rdoc[r] EXCEPT !.linked = TRUE], {}, "linkToContact")
  /\ Respond(r, 200)
  /\ UNCHANGED <<rmod, ingestRest>>

\* email.escalate(reason) on a loaded document: the ladder step, then save
Escalate_findById(r) ==
  /\ \E id \in Ids, reason \in EscalateReasons :
       Load(r, "escalate", id, [NoInput EXCEPT !.reason = reason], "escalate", 0)
  /\ UNCHANGED <<emails, last, ingestRest>>

Escalate_escalate(r) ==
  /\ rpc[r] = "escalate"
  /\ Write(r, Escalate(rdoc[r], rin[r].reason), {}, "escalate")
  /\ Respond(r, 200)
  /\ UNCHANGED <<rmod, ingestRest>>

\* a stored document of models/Email.js keeps processed, processedAt, category
\* and priority under aiProcessing; the documents of the two scheduled
\* pipelines keep their fields at the top level
TopLevel(d, f) == f \in DOMAIN d /\ ~("escalationLevel" \in DOMAIN d /\ f \in AiProcessingPaths)

\* cleanupOldData's filter { processed: true, processedAt: { $lt: thirtyDaysAgo } },
\* given to the driver as it is: both paths are top-level fields
CleanupMatchesNested(d, cutoff) == d.processed /\ d.processedAt > 0 /\ d.processedAt < cutoff
CleanupMatches(d, cutoff) ==
  /\ TopLevel(d, "processed") /\ d.processed
  /\ TopLevel(d, "processedAt") /\ d.processedAt < cutoff

\* cleanupOldData: collection('emails').deleteMany(filter); thirtyDaysAgo is any
\* time up to now
CleanupOldData ==
  /\ clock < MaxRequests
  /\ clock' = clock + 1
  /\ \E cutoff \in 0..(clock + 1) :
       emails' = SelectSeq(emails, LAMBDA d : ~CleanupMatches(d, cutoff))
  /\ last' = "cleanupOldData"
  /\ UNCHANGED <<rpc, rop, rid, rdoc, rmod, rin, rstatus, ingestRest>>

Reqs == 1..2

\* ======================================================================
\* Specifications
\* ======================================================================
\* a User nobody has tried to log in as
NewUser == [loginAttempts |-> 0, lockUntil |-> 0]

InitAuth ==
  /\ user = NewUser
  /\ lpc = [r \in Reqs |-> "idle"]
  /\ luser = [r \in Reqs |-> NewUser]
  /\ dateNow = 0

InitRequests ==
  /\ rpc = [r \in Reqs |-> "idle"]
  /\ rop = [r \in Reqs |-> "none"]
  /\ rid = [r \in Reqs |-> 0]
  /\ rdoc = [r \in Reqs |-> NewEmail(0)]
  /\ rmod = [r \in Reqs |-> {}]
  /\ rin = [r \in Reqs |-> NoInput]
  /\ rstatus = [r \in Reqs |-> 0]
  /\ clock = 0
  /\ last = "none"

InitReview ==
  /\ InitRequests
  /\ bodyLen = 0 /\ promptBody = 0 /\ prompted = "none"
  /\ InitAuth

\* the deployment after its labels were created at the provider: every folder
\* label is there, once
Init ==
  /\ variant \in Variants
  /\ initialized \in (IF variant = "fetch" THEN BOOLEAN ELSE {TRUE})
  /\ reply \in CASE variant = "enhanced" -> EnhancedReplies
                [] variant = "service" -> [Messages -> ServiceModelOutputs]
                [] OTHER -> [Messages -> {NoAnalysis}]
  /\ unread = Messages
  /\ emails = <<>> /\ waitlist = <<>> /\ important = {} /\ outbox = [m \in Messages |-> 0]
  /\ passes = 0
  /\ pc = [p \in Slots |-> "idle"]
  /\ batch = [p \in Slots |-> <<>>]
  /\ cur = [p \in Slots |-> 0]
  /\ analysis = [p \in Slots |-> NoAnalysis]
  /\ existedAtStart = [p \in Slots |-> FALSE]
  /\ classified = [p \in Slots |-> "no"]
  /\ created = [p \in Slots |-> FALSE]
  /\ lost = [p \in Slots |-> FALSE]
  /\ skipped = [p \in Slots |-> FALSE]
  /\ surfaced = [p \in Slots |-> "none"]
  /\ tick = [p \in Slots |-> 0]
  /\ failedAt = 0
  /\ labels = [n \in LabelNames |-> 1]
  /\ attempted = [m \in Messages |-> {}]
  /\ InitReview

Next ==
  \E p \in Slots :
    \/ Enhanced_monitorInbox(p)
    \/ Enhanced_processEmail_findOne(p)
    \/ Enhanced_analyzeEmailWithAI(p)
    \/ Enhanced_processEmail_save(p)
    \/ Enhanced_saveWaitlistEntry(p)
    \/ Enhanced_applyLabel(p)
    \/ Enhanced_markAsImportant(p)
    \/ Enhanced_sendAutoResponse(p)
    \/ Service_checkInbox(p)
    \/ Service_processEmail_findOne(p)
    \/ Service_analyzeEmail(p)
    \/ Service_processEmail_save(p)
    \/ Service_sendResponse(p)
    \/ Service_processEmail_save2(p)
    \/ Service_processEmail_markRead(p)
    \/ Fetch_fetchNewEmails(p)
    \/ Fetch_findOne(p)
    \/ Fetch_save(p)

Spec == Init /\ [][Next]_vars

\* the analyses of a first run of EnhancedEmailAI against a provider that has
\* none of the folder labels yet
FirstRunOutputs ==
  { EnhancedOutput("waitlist", "medium", FALSE, TRUE, "complete"),
    EnhancedOutput("waitlist", "high", TRUE, FALSE, "noParentEmail"),
    EnhancedOutput("general", "high", FALSE, TRUE, "none") }

InitFirstRun ==
  /\ variant = "enhanced" /\ initialized = TRUE
  /\ reply \in [Messages -> FirstRunOutputs]
  /\ unread = Messages
  /\ emails = <<>> /\ waitlist = <<>> /\ important = {} /\ outbox = [m \in Messages |-> 0]
  /\ passes = 0
  /\ pc = [p \in Slots |-> "idle"]
  /\ batch = [p \in Slots |-> <<>>]
  /\ cur = [p \in Slots |-> 0]
  /\ analysis = [p \in Slots |-> NoAnalysis]
  /\ existedAtStart = [p \in Slots |-> FALSE]
  /\ classified = [p \in Slots |-> "no"]
  /\ created = [p \in Slots |-> FALSE]
  /\ lost = [p \in Slots |-> FALSE]
  /\ skipped = [p \in Slots |-> FALSE]
  /\ surfaced = [p \in Slots |-> "none"]
  /\ tick = [p \in Slots |-> 0]
  /\ failedAt = 0
  /\ labels = [n \in LabelNames |-> 0]
  /\ attempted = [m \in Messages |-> {}]
  /\ InitReview

NextFirstRun ==
  \E p \in Slots :
    \/ Enhanced_monitorInbox(p)
    \/ Enhanced_processEmail_findOne(p)
    \/ Enhanced_analyzeEmailWithAI(p)
    \/ Enhanced_processEmail_save(p)
    \/ Enhanced_saveWaitlistEntry(p)
    \/ Enhanced_applyLabel(p)
    \/ Enhanced_applyLabel_create(p)
    \/ Enhanced_markAsImportant(p)
    \/ Enhanced_sendAutoResponse(p)

SpecFirstRun == InitFirstRun /\ [][NextFirstRun]_vars

\* the emails collection after fetchNewEmails ingested the first message; the
\* requests of routes/emails.js then work on the stored Email
InitStored ==
  /\ variant = "fetch" /\ initialized = TRUE
  /\ reply = [m \in Messages |-> NoAnalysis]
  /\ unread = Messages
  /\ emails = <<NewEmail(1)>>
  /\ waitlist = <<>> /\ important = {} /\ outbox = [m \in Messages |-> 0]
  /\ passes = 1
  /\ pc = [p \in Slots |-> "idle"]
  /\ batch = [p \in Slots |-> IF p = 1 THEN <<1>> ELSE <<>>]
  /\ cur = [p \in Slots |-> IF p = 1 THEN 2 ELSE 0]
  /\ analysis = [p \in Slots |-> NoAnalysis]
  /\ existedAtStart = [p \in Slots |-> FALSE]
  /\ classified = [p \in Slots |-> "no"]
  /\ created = [p \in Slots |-> FALSE]
  /\ lost = [p \in Slots |-> FALSE]
  /\ skipped = [p \in Slots |-> FALSE]
  /\ surfaced = [p \in Slots |-> "none"]
  /\ tick = [p \in Slots |-> IF p = 1 THEN 1 ELSE 0]
  /\ failedAt = 0
  /\ labels = [n \in LabelNames |-> 1]
  /\ attempted = [m \in Messages |-> {}]
  /\ InitReview

NextReview ==
  \/ CleanupOldData
  \/ \E r \in Reqs :
       \/ Get_findById(r)
       \/ Get_markRead(r)
       \/ Process_findById(r)
       \/ AIService_processEmail_classify(r)
       \/ AIService_markAsProcessed(r)
       \/ AIService_processEmail_catch(r)
       \/ Flags_update(r)
       \/ Notes_findById(r)
       \/ Notes_addInternalNote(r)
       \/ Respond_findById(r)
       \/ Respond_sendEmail(r)
       \/ Respond_addResponse(r)
       \/ Link_findById(r)
       \/ Link_linkToContact(r)
       \/ Escalate_findById(r)
       \/ Escalate_escalate(r)

SpecReview == InitStored /\ [][NextReview]_vars

\* ======================================================================
\* Properties of the ingestion pipelines (Spec)
\* ======================================================================
Count(coll, m) == Cardinality({i \in DOMAIN coll : coll[i].messageId = m})
RecordsOf(coll, m) == SelectSeq(coll, LAMBDA d : d.messageId = m)
\* C1: whatever passes list a messageId, and however often, the collection never
\* holds two records with that messageId; a run that found the record or
\* inserted it sees exactly one; and once the record is stored, only the run
\* that inserted it ever changes it: every other pass over the message leaves
\* the stored record as it is.
C1_Idempotent ==
  [][\A m \in Messages :
       /\ Count(emails', m) <= 1
       /\ \A p \in Slots :
            (pc'[p] # "idle" /\ batch'[p][cur'[p]] = m
               /\ (created'[p] \/ (existedAtStart'[p] /\ pc'[p] # "find")))
              => Count(emails', m) = 1
       /\ (Count(emails, m) = 1 /\ RecordsOf(emails', m) # RecordsOf(emails, m))
            => \E p \in Slots : /\ pc[p] # "idle" /\ Msg(p) = m /\ created[p]
                                /\ pc'[p] # pc[p]
     ]_vars

\* C1 witness: two passes were run, one of them returned at the existence check
\* of a message or lost the insert, and the message has its one record
C1_Witness ==
  /\ passes = 2
  /\ \A p \in Slots : pc[p] = "idle"
  /\ \E p \in Slots : skipped[p] \/ lost[p]
  /\ \E m \in Messages : Count(emails, m) = 1

\* C2: a run of processEmail that began when the record of its messageId was
\* already stored never calls the classifier.
C2_NoClassifierCallOnExisting ==
  \A p \in Slots : existedAtStart[p] => classified[p] = "no"

\* C2 witness: a pipeline with a classifier has a run in hand that began with the
\* record stored, and an earlier run of the same pass already returned at the
\* existence check without a classifier call
C2_Witness ==
  /\ variant \in {"enhanced", "service"}
  /\ \E p \in Slots : skipped[p] /\ existedAtStart[p] /\ pc[p] = "find"

\* C3 (as claimed): a pass whose insert lost to the unique index surfaces no
\* error to its caller and still goes through the rest of its listing.
C3_LosingInsertIsNoOp ==
  \A p \in Slots :
    (lost[p] /\ pc[p] = "idle") => (surfaced[p] = "none" /\ cur[p] > Len(batch[p]))

\* C9 (as claimed): a message whose classification failed is not stored as
\* processed: the record a run inserts after a failed classifier call has
\* processed = FALSE.
C9_FailedClassificationStaysUnprocessed ==
  \A p \in Slots :
    (pc[p] # "idle" /\ classified[p] = "failed" /\ created[p])
      => \A i \in DocsOf(Msg(p)) : ~emails[i].processed

\* C10 (as claimed): once a run is past the waitlist step with a waitlist
\* analysis whose extraction lacks the child name or the parent email, there is
\* no Waitlist record for the email and the Email has requiresAction = TRUE.
C10_WaitlistCompletenessGuard ==
  \A p \in Slots :
    (variant = "enhanced" /\ pc[p] \in {"label", "important", "respond"}
       /\ created[p] /\ analysis[p].category = "waitlist"
       /\ analysis[p].extractedData # "none"
       /\ ~WaitlistValid(analysis[p].extractedData))
      => /\ \A i \in DOMAIN waitlist : waitlist[i].emailId # Msg(p)
         /\ \A i \in DocsOf(Msg(p)) : emails[i].requiresAction
\* ----------------------------------------------------------------------
\* Properties of the stored Email under the requests of SpecReview
\* ----------------------------------------------------------------------

\* request r takes the step that ends at program point at
StepOf(r, at) == rpc[r] = at /\ rpc'[r] # at

\* C4: once aiProcessing.processed is true in the stored Email no step sets it
\* back to false, and a step that changes it from false to true is
\* markAsProcessed's save
C4_ProcessedMonotonic ==
  [][\A id \in DOMAIN emails :
       /\ emails[id].processed => emails'[id].processed
       /\ (~emails[id].processed /\ emails'[id].processed)
            => /\ last' = "markAsProcessed"
               /\ \E r \in Reqs : StepOf(r, "mark") /\ rid[r] = id
    ]_vars

\* C4 witness: the Email is processed and the last write to it was the error
\* record of a re-classification that failed after it had been processed
C4_Witness ==
  \E id \in DOMAIN emails :
    /\ emails[id].processed /\ last = "recordError"
    /\ \E r \in Reqs : rop[r] = "process" /\ rid[r] = id /\ rstatus[r] = 500

C6_EscalateOneStep ==
  [][\A r \in Reqs :
       StepOf(r, "escalate") =>
         LET old == IndexOf(rdoc[r].priority)
             new == IndexOf(rdoc'[r].priority)
             top == Len(PriorityLevels) - 1 IN
         /\ new = IF old < top THEN old + 1 ELSE top
         /\ old < top => emails'[rid[r]].priority = rdoc'[r].priority
    ]_vars

\* C6 witness: an escalate call has ended on a document that was already urgent
\* (urgent by classification: no escalation counted on it), after another call
\* raised a priority by one step
C6_Witness ==
  /\ \E r \in Reqs : /\ rop[r] = "escalate" /\ rpc[r] = "idle" /\ rstatus[r] = 200
                      /\ rdoc[r].priority = "urgent" /\ rdoc[r].escalationLevel = 0
  /\ \E r \in Reqs : /\ rop[r] = "escalate" /\ rpc[r] = "idle" /\ rstatus[r] = 200
                      /\ rdoc[r].priority = "high" /\ rdoc[r].escalationLevel = 1

\* C7: every escalate call records the reason on the document and increments
\* its escalation counter by one, also when the document is already urgent
C7_EscalateAlwaysRecords ==
  [][\A r \in Reqs :
       StepOf(r, "escalate") =>
         /\ rdoc'[r].priorityReason = rin[r].reason
         /\ rdoc'[r].escalationLevel = rdoc[r].escalationLevel + 1
    ]_vars

\* C8: whatever category string the classifier returned, markAsProcessed's save
\* is not rejected and stores a category of the enum: the returned one when it
\* is recognized, 'unclassified' when it is not
C8_UnrecognizedCategoryNormalized ==
  [][\A r \in Reqs :
       (StepOf(r, "mark") /\ rin[r].category # "absent") =>
         /\ rpc'[r] # "catch"
         /\ emails'[rid[r]].processed
         /\ emails'[rid[r]].category =
              IF rin[r].category \in EmailCategories THEN rin[r].category
              ELSE "unclassified"
    ]_vars

\* C11: a pass that has ended went through every message of its listing: a
\* failure on one message (while fetching, classifying or persisting it) does
\* not keep the pass from the messages listed after it
C11_BatchFaultIsolation ==
  \A p \in Slots :
    (pc[p] = "idle" /\ Len(batch[p]) > 0) => cur[p] > Len(batch[p])

\* C12: in the scheduled pipelines, once a pass has failed (its listing threw or
\* one of its messages threw) no pass has rejected, and the next tick can still
\* start a pass whenever a timer callback is free
C12_FailedTickKeepsScheduler ==
  (variant \in {"enhanced", "service"} /\ failedAt > 0) =>
    /\ \A p \in Slots : surfaced[p] = "none"
    /\ (passes < MaxPasses /\ \E p \in Slots : pc[p] = "idle")
         => ENABLED (\E p \in Slots : Enhanced_monitorInbox(p) \/ Service_checkInbox(p))

\* C12 witness: after a failed pass a later tick has run a pass over a whole
\* listing
C12_Witness ==
  /\ variant \in {"enhanced", "service"} /\ failedAt > 0
  /\ \E p \in Slots : /\ tick[p] > failedAt /\ pc[p] = "idle"
                      /\ Len(batch[p]) > 0 /\ cur[p] > Len(batch[p])

\* C13: in the scheduled pipelines an outward side effect of a message (label
\* applied or marked read, which both remove UNREAD; marked important; auto-reply
\* sent) exists only when an Email record of the message is stored
C13_SaveBeforeSideEffects ==
  \A m \in Messages :
    (variant \in {"enhanced", "service"}
       /\ (m \notin unread \/ m \in important \/ outbox[m] > 0))
      => Count(emails, m) >= 1

\* C13 witness: all passes have ended; one message has its record and its side
\* effects, another whose save failed has neither
C13_Witness ==
  /\ variant \in {"enhanced", "service"} /\ \A p \in Slots : pc[p] = "idle"
  /\ \E m \in Messages : Count(emails, m) = 1 /\ m \notin unread /\ outbox[m] > 0
  /\ \E m \in Messages : Count(emails, m) = 0 /\ m \in unread /\ failedAt > 0

C15_EnrichedAtMostOnce ==
  [][\A r \in Reqs :
       (StepOf(r, "classify") \/ StepOf(r, "mark")) => ~emails[rid[r]].processed
    ]_vars

\* C16: when markAsProcessed stores an Email with priority urgent or high, the
\* stored Email has flags.requiresAction and flags.isImportant set and the
\* provider has been asked to mark the message important
C16_UrgentHighMarkedImportant ==
  [][\A r \in Reqs :
       (StepOf(r, "mark") /\ rpc'[r] = "idle"
          /\ emails'[rid[r]].priority \in {"urgent", "high"}) =>
         /\ emails'[rid[r]].requiresAction /\ emails'[rid[r]].isImportant
         /\ emails'[rid[r]].messageId \in important'
    ]_vars

C19_AutoRespondedOnlyIfSent ==
  \A i \in DOMAIN emails :
    (variant = "service" /\ emails[i].actionTaken = "auto-responded")
      => outbox[emails[i].messageId] > 0

\* the side effects the analysis a calls for in the pipeline at hand
Applicable(a) ==
  IF variant = "enhanced"
  THEN {"label"}
       \cup (IF a.category = "waitlist" /\ a.extractedData # "none" THEN {"waitlist"} ELSE {})
       \cup (IF a.urgency = "high" THEN {"important"} ELSE {})
       \cup (IF a.shouldAutoRespond /\ a.suggestedResponse # "" THEN {"respond"} ELSE {})
  ELSE {"read"}
       \cup (IF a.shouldAutoRespond /\ a.suggestedResponse # "" THEN {"respond"} ELSE {})

\* C18: when processEmail leaves a message whose Email it stored, every side
\* effect applicable to the message has been attempted, whichever of them
\* failed, and nothing was thrown to the caller
C18_SideEffectsIsolated ==
  [][\A p \in Slots :
       (variant \in {"enhanced", "service"} /\ pc[p] # "idle" /\ created[p]
          /\ (pc'[p] = "idle" \/ cur'[p] # cur[p])) =>
         /\ attempted'[Msg(p)] \ {"conflict"} = Applicable(analysis[p])
         /\ surfaced'[p] = "none"
    ]_vars

\* C18 witness: the passes have ended; for one message the label call failed
\* (it is still unread) and the mark-important call and the auto-reply, which
\* come after it, were made and succeeded
C18_Witness ==
  /\ variant = "enhanced" /\ \A p \in Slots : pc[p] = "idle"
  /\ \E m \in Messages :
       /\ attempted[m] = {"label", "important", "respond"}
       /\ m \in unread /\ m \in important /\ outbox[m] > 0

\* C20: after any interleaving of applyLabel calls the provider holds at most
\* one label of each name, and no call was refused because another call had
\* created the name meanwhile (which leaves its message without the label)
C20_LabelGetOrCreate ==
  /\ \A n \in LabelNames : labels[n] <= 1
  /\ \A m \in Messages : "conflict" \notin attempted[m]

\* ----------------------------------------------------------------------
\* C21: a failure of a stage on a stored Email appends one entry to that
\* Email's errors[] (the stored errors[] is the previous one followed by the new
\* entry), and no step ever removes an entry.  The failures of the review
\* requests are the classifier or the save failing in AIService.processEmail
\* (the step out of "catch") and emailService.sendEmail failing in the respond
\* route (the step out of "send" that answers 500).
C21_FailureAppendsError ==
  [][/\ \A r \in Reqs :
          (StepOf(r, "catch") \/ (StepOf(r, "send") /\ rstatus'[r] = 500))
            => emails'[rid[r]].errors = emails[rid[r]].errors + 1
     /\ \A i \in DOMAIN emails :
          i \in DOMAIN emails' => emails'[i].errors >= emails[i].errors]_vars

\* ======================================================================
\* The waitlist routes (routes/waitlist.js) over the entries the enhanced
\* pipeline stores
\* ======================================================================
\* waitlistSchema.status: enum ['pending', 'contacted', 'enrolled', 'withdrawn']
WaitlistStatuses == {"pending", "contacted", "enrolled", "withdrawn"}

\* the status of a request body: any string; the dashboard's four buttons send
\* the four enum values, "archived" stands for any other string
StatusBodies == WaitlistStatuses \cup {"archived"}

\* PUT /api/waitlist/:id: Waitlist.findByIdAndUpdate(id, {status, priority,
\* notes}, {new: true}): one atomic $set, with no runValidators option, so the
\* schema's enum is not applied; 404 when there is no such entry
Waitlist_update ==
  /\ \E i \in 1..(Len(waitlist) + 1), status \in StatusBodies :
       IF i \in DOMAIN waitlist
       THEN waitlist' = [waitlist EXCEPT ![i].status = status]
       ELSE UNCHANGED waitlist
  /\ UNCHANGED <<variant, initialized, reply, unread, emails, important, outbox, passes,
                 pc, batch, cur, analysis, existedAtStart, classified, created, lost,
                 skipped, surfaced, tick, failedAt, labels, attempted, reviewVars>>

\* the enhanced pipeline over a mailbox of one waitlist application and one
\* urgent general email, its labels in place, with the dashboard updating the
\* entries
InitWaitlist ==
  /\ variant = "enhanced" /\ initialized = TRUE
  /\ reply = [m \in Messages |->
                IF m = 1 THEN EnhancedOutput("waitlist", "medium", FALSE, TRUE, "complete")
                ELSE EnhancedOutput("general", "high", FALSE, TRUE, "none")]
  /\ unread = Messages
  /\ emails = <<>> /\ waitlist = <<>> /\ important = {} /\ outbox = [m \in Messages |-> 0]
  /\ passes = 0
  /\ pc = [p \in Slots |-> "idle"]
  /\ batch = [p \in Slots |-> <<>>]
  /\ cur = [p \in Slots |-> 0]
  /\ analysis = [p \in Slots |-> NoAnalysis]
  /\ existedAtStart = [p \in Slots |-> FALSE]
  /\ classified = [p \in Slots |-> "no"]
  /\ created = [p \in Slots |-> FALSE]
  /\ lost = [p \in Slots |-> FALSE]
  /\ skipped = [p \in Slots |-> FALSE]
  /\ surfaced = [p \in Slots |-> "none"]
  /\ tick = [p \in Slots |-> 0]
  /\ failedAt = 0
  /\ labels = [n \in LabelNames |-> 1]
  /\ attempted = [m \in Messages |-> {}]
  /\ InitReview

NextWaitlist ==
  \/ Waitlist_update
  \/ \E p \in Slots :
       \/ Enhanced_monitorInbox(p)
       \/ Enhanced_processEmail_findOne(p)
       \/ Enhanced_analyzeEmailWithAI(p)
       \/ Enhanced_processEmail_save(p)
       \/ Enhanced_saveWaitlistEntry(p)
       \/ Enhanced_applyLabel(p)
       \/ Enhanced_markAsImportant(p)
       \/ Enhanced_sendAutoResponse(p)

SpecWaitlist == InitWaitlist /\ [][NextWaitlist]_vars

\* ----------------------------------------------------------------------
\* C22: a waitlist entry is created with status pending, and every later
\* update of its status follows pending -> contacted -> enrolled: no step
\* moves an entry backwards along that flow or to a value outside the enum.
FlowRank(st) == CASE st = "pending" -> 1 [] st = "contacted" -> 2
                  [] st = "enrolled" -> 3 [] OTHER -> 0

C22_WaitlistStatusFlow ==
  [][/\ \A i \in DOMAIN waitlist' :
          i \notin DOMAIN waitlist => waitlist'[i].status = "pending"
     /\ \A i \in DOMAIN waitlist :
          /\ waitlist'[i].status \in WaitlistStatuses
          /\ (FlowRank(waitlist[i].status) > 0 /\ FlowRank(waitlist'[i].status) > 0)
               => FlowRank(waitlist'[i].status) >= FlowRank(waitlist[i].status)]_vars

\* ----------------------------------------------------------------------
\* C23: per message the stages run in the order parse, dedupe-check, classify,
\* persist, route; in particular the run that persists the Email of a message
\* (its step out of "save" that inserts the record) has classified the message
\* before.
C23_ClassifiedBeforePersisted ==
  [][\A p \in Slots :
       (pc[p] = "save" /\ pc'[p] # "save" /\ Len(emails') = Len(emails) + 1)
         => classified[p] # "no"]_vars

\* ======================================================================
\* Many ticks over one slow message: setInterval starts monitorInbox every
\* three minutes whether or not the passes started before have returned
\* ======================================================================
MaxOverlap == 6
Workers == 1..MaxOverlap

\* The passes of EnhancedEmailAI with the bookkeeping of the passes (tick,
\* failedAt, lost, skipped, classified, created, existedAtStart, attempted) left
\* alone: what a pass does to the mailbox and the collection, and where it is.

\* the pass turns to the next message of its listing, or ends
OverlapNext(p) ==
  IF cur[p] < Len(batch[p])
  THEN pc' = [pc EXCEPT ![p] = "find"] /\ cur' = [cur EXCEPT ![p] = @ + 1]
  ELSE pc' = [pc EXCEPT ![p] = "idle"] /\ UNCHANGED cur

\* monitorInbox lists the unread messages (a failed listing is caught and the
\* pass ends) and turns to the first one
ListInbox(p) ==
  /\ variant = "enhanced" /\ pc[p] = "idle"
  /\ \/ LET b == Take(SetToSeq(unread), MaxResultsEnhanced) IN
          /\ batch' = [batch EXCEPT ![p] = b]
          /\ cur' = [cur EXCEPT ![p] = 1]
          /\ pc' = [pc EXCEPT ![p] = IF Len(b) > 0 THEN "find" ELSE "idle"]
     \/ /\ batch' = [batch EXCEPT ![p] = <<>>]
        /\ cur' = [cur EXCEPT ![p] = 1]
        /\ UNCHANGED pc
  /\ UNCHANGED <<variant, initialized, reply, unread, emails, waitlist, important, outbox,
                 analysis, existedAtStart, classified, created, lost, skipped, surfaced,
                 tick, failedAt, labels, attempted, reviewVars>>

\* a tick, one of at most MaxOverlap
Overlap_monitorInbox(p) ==
  /\ passes < MaxOverlap
  /\ \A q \in Workers : q < p => pc[q] # "idle"
  /\ passes' = passes + 1
  /\ ListInbox(p)

\* processEmail up to the existence check: messages.get (a failure is caught and
\* processEmail returns), findOne and the early return
Overlap_processEmail_findOne(p) ==
  /\ pc[p] = "find"
  /\ \/ OverlapNext(p)
     \/ IF DedupeExisting(Msg(p))
        THEN OverlapNext(p)
        ELSE pc' = [pc EXCEPT ![p] = "analyze"] /\ UNCHANGED cur
  /\ UNCHANGED <<variant, initialized, reply, unread, emails, waitlist, important, outbox,
                 passes, batch, analysis, existedAtStart, classified, created, lost,
                 skipped, surfaced, tick, failedAt, labels, attempted, reviewVars>>

\* analyzeEmailWithAI: the completion call is awaited; it returns the model's
\* answer or, on any failure, the default analysis
Overlap_analyzeEmailWithAI(p) ==
  /\ pc[p] = "analyze"
  /\ \/ analysis' = [analysis EXCEPT ![p] = reply[Msg(p)]]
     \/ analysis' = [analysis EXCEPT ![p] = EnhancedDefaultAnalysis]
  /\ pc' = [pc EXCEPT ![p] = "save"]
  /\ UNCHANGED <<variant, initialized, reply, unread, emails, waitlist, important, outbox,
                 passes, batch, cur, existedAtStart, classified, created, lost, skipped,
                 surfaced, tick, failedAt, labels, attempted, reviewVars>>

\* emailDoc.save(): a duplicate key is thrown into processEmail's catch
Overlap_processEmail_save(p) ==
  /\ pc[p] = "save"
  /\ IF UniqueIndexOk(Msg(p))
     THEN /\ emails' = Append(emails, EnhancedEmailDoc(Msg(p), analysis[p]))
          /\ pc' = [pc EXCEPT ![p] = "label"]
          /\ UNCHANGED <<cur, analysis>>
     ELSE /\ OverlapNext(p)
          /\ analysis' = [analysis EXCEPT ![p] = NoAnalysis]
          /\ UNCHANGED emails
  /\ UNCHANGED <<variant, initialized, reply, unread, waitlist, important, outbox,
                 passes, batch, existedAtStart, classified, created, lost, skipped,
                 surfaced, tick, failedAt, labels, attempted, reviewVars>>

\* applyLabel: messages.modify removes UNREAD, or fails and is caught; the
\* analyses of this mailbox ask for no other side effect
Overlap_applyLabel(p) ==
  /\ pc[p] = "label"
  /\ \/ unread' = unread \ {Msg(p)}
     \/ UNCHANGED unread
  /\ OverlapNext(p)
  /\ analysis' = [analysis EXCEPT ![p] = NoAnalysis]
  /\ UNCHANGED <<variant, initialized, reply, emails, waitlist, important, outbox,
                 passes, batch, existedAtStart, classified, created, lost, skipped,
                 surfaced, tick, failedAt, labels, attempted, reviewVars>>

\* a mailbox with one unread message, a plain general email
InitOverlap ==
  /\ variant = "enhanced" /\ initialized = TRUE
  /\ reply = [m \in Messages |-> EnhancedOutput("general", "medium", FALSE, FALSE, "none")]
  /\ unread = {1}
  /\ emails = <<>> /\ waitlist = <<>> /\ important = {} /\ outbox = [m \in Messages |-> 0]
  /\ passes = 0
  /\ pc = [p \in Workers |-> "idle"]
  /\ batch = [p \in Workers |-> <<>>]
  /\ cur = [p \in Workers |-> 0]
  /\ analysis = [p \in Workers |-> NoAnalysis]
  /\ existedAtStart = [p \in Workers |-> FALSE]
  /\ classified = [p \in Workers |-> "no"]
  /\ created = [p \in Workers |-> FALSE]
  /\ lost = [p \in Workers |-> FALSE]
  /\ skipped = [p \in Workers |-> FALSE]
  /\ surfaced = [p \in Workers |-> "none"]
  /\ tick = [p \in Workers |-> 0]
  /\ failedAt = 0
  /\ labels = [n \in LabelNames |-> 1]
  /\ attempted = [m \in Messages |-> {}]
  /\ InitReview

NextOverlap ==
  \E p \in Workers :
    \/ Overlap_monitorInbox(p)
    \/ Overlap_processEmail_findOne(p)
    \/ Overlap_analyzeEmailWithAI(p)
    \/ Overlap_processEmail_save(p)
    \/ Overlap_applyLabel(p)

SpecOverlap == InitOverlap /\ [][NextOverlap]_vars

\* ----------------------------------------------------------------------
\* C24: at any moment at most 5 classification requests are in flight, for
\* every timing of ticks, a tick that fires while earlier passes are still
\* running included.  A pass has a classification request in flight exactly
\* while it is at "analyze".
C24_BoundedClassifications ==
  Cardinality({p \in DOMAIN pc : pc[p] = "analyze"}) <= 5

\* ----------------------------------------------------------------------
\* C25: when the model returns a confidence outside [0,1] or a sentimentScore
\* outside [-1,1], markAsProcessed stores the analysis with the value clamped
\* to the nearest bound and the Email becomes processed; the write is never
\* rejected.
Clamp(x, lo, hi) == IF x < lo THEN lo ELSE IF x > hi THEN hi ELSE x

C25_OutOfRangeClamped ==
  [][\A r \in Reqs :
       (/\ StepOf(r, "mark")
        /\ rin[r].category \in EmailCategories
        /\ (rin[r].confidence \notin 0..100 \/ rin[r].sentimentScore \notin (-100)..100))
         => /\ emails'[rid[r]].processed
            /\ emails'[rid[r]].confidence = Clamp(rin[r].confidence, 0, 100)
            /\ emails'[rid[r]].sentimentScore = Clamp(rin[r].sentimentScore, -100, 100)]_vars

\* ======================================================================
\* The body of a message on its way into the classification prompt.  A string
\* is modelled by its length in characters.
\* ======================================================================
MaxBodyLen == 2100
ServiceBodyLimit == 1000
StoredBodyLimit == 2000

\* String.prototype.substring(0, n), on lengths
Substring0(len, n) == IF len <= n THEN len ELSE n

\* EnhancedEmailAI.extractBody: the decoded parts, concatenated, returned whole
Enhanced_extractBody(len) == len

\* EmailAIService.extractBody: return body.substring(0, 1000)
Service_extractBody(len) == Substring0(len, ServiceBodyLimit)

\* EnhancedEmailAI.processEmail: body = extractBody(payload);
\* analyzeEmailWithAI(from, subject, body) embeds `Body: ${body}`.  (Only the
\* copy stored in the Email is cut, body.substring(0, 2000).)
Enhanced_prompt ==
  /\ variant = "enhanced"
  /\ promptBody' = Enhanced_extractBody(bodyLen)
  /\ prompted' = "analyzeEmailWithAI"
  /\ UNCHANGED <<ingestVars, requestVars, bodyLen, authVars>>

\* EmailAIService.processEmail: body = extractBody(payload);
\* analyzeEmail(from, subject, body) embeds `Body: ${body}`
Service_prompt ==
  /\ variant = "service"
  /\ promptBody' = Service_extractBody(bodyLen)
  /\ prompted' = "analyzeEmail"
  /\ UNCHANGED <<ingestVars, requestVars, bodyLen, authVars>>

\* AIService.generateEmailAnalysisPrompt(email) embeds
\* ${email.body.text || email.body.html}: the text when it is not empty, else
\* the html version, whose length is drawn here
AIService_generateEmailAnalysisPrompt ==
  /\ variant = "fetch"
  /\ \E html \in {0, MaxBodyLen} :
       promptBody' = IF bodyLen # 0 THEN bodyLen ELSE html
  /\ prompted' = "generateEmailAnalysisPrompt"
  /\ UNCHANGED <<ingestVars, requestVars, bodyLen, authVars>>

\* a message with a body of any length up to MaxBodyLen, in any of the
\* deployments, before its prompt is built
InitPrompt ==
  /\ variant \in Variants /\ initialized = TRUE
  /\ reply = [m \in Messages |-> NoAnalysis]
  /\ unread = Messages
  /\ emails = <<>> /\ waitlist = <<>> /\ important = {} /\ outbox = [m \in Messages |-> 0]
  /\ passes = 0
  /\ pc = [p \in Slots |-> "idle"]
  /\ batch = [p \in Slots |-> <<>>]
  /\ cur = [p \in Slots |-> 0]
  /\ analysis = [p \in Slots |-> NoAnalysis]
  /\ existedAtStart = [p \in Slots |-> FALSE]
  /\ classified = [p \in Slots |-> "no"]
  /\ created = [p \in Slots |-> FALSE]
  /\ lost = [p \in Slots |-> FALSE]
  /\ skipped = [p \in Slots |-> FALSE]
  /\ surfaced = [p \in Slots |-> "none"]
  /\ tick = [p \in Slots |-> 0]
  /\ failedAt = 0
  /\ labels = [n \in LabelNames |-> 1]
  /\ attempted = [m \in Messages |-> {}]
  /\ rpc = [r \in Reqs |-> "idle"]
  /\ rop = [r \in Reqs |-> "none"]
  /\ rid = [r \in Reqs |-> 0]
  /\ rdoc = [r \in Reqs |-> NewEmail(0)]
  /\ rmod = [r \in Reqs |-> {}]
  /\ rin = [r \in Reqs |-> NoInput]
  /\ rstatus = [r \in Reqs |-> 0]
  /\ clock = 0
  /\ last = "none"
  /\ bodyLen \in 0..MaxBodyLen
  /\ promptBody = 0
  /\ prompted = "none"
  /\ InitAuth

NextPrompt ==
  \/ Enhanced_prompt
  \/ Service_prompt
  \/ AIService_generateEmailAnalysisPrompt

SpecPrompt == InitPrompt /\ [][NextPrompt]_vars

\* ----------------------------------------------------------------------
\* C26: the body text embedded in the classification prompt is truncated to a
\* fixed maximum length: whatever the length of the email body, the body portion
\* of a prompt is no longer than the largest cut the code applies to a body
\* anywhere (2000 characters).
C26_PromptBodyBounded ==
  prompted # "none" => promptBody <= StoredBodyLimit

\* ----------------------------------------------------------------------
\* C27: for every messageId, the Waitlist entry is created at most once and
\* the auto-reply is sent at most once over the whole run, for any number of
\* ticks and any interleaving of overlapping passes that list the same unread
\* message (scheduled pipelines).
C27_SideEffectsAtMostOnce ==
  variant \in {"enhanced", "service"} =>
    \A m \in Messages :
      /\ outbox[m] <= 1
      /\ Cardinality({i \in DOMAIN waitlist : waitlist[i].emailId = m}) <= 1

\* two passes listed the same message and one of them lost the insert to the
\* other, which created the Waitlist entry and sent the auto-reply; both ended
C27_Witness ==
  /\ variant = "enhanced"
  /\ \A p \in Slots : pc[p] = "idle"
  /\ \E m \in Messages :
       /\ outbox[m] = 1
       /\ \E i \in DOMAIN waitlist : waitlist[i].emailId = m
       /\ \E p, q \in Slots :
            /\ p # q /\ lost[p] /\ ~lost[q]
            /\ Len(batch[p]) > 0 /\ batch[p][1] = m
            /\ Len(batch[q]) > 0 /\ batch[q][1] = m

\* ======================================================================
\* Ticks without end over a mailbox with more unread messages than one listing
\* returns
\* ======================================================================
\* the messages of the mailbox in the order messages.list returns them
Inbox == 1..(MaxResultsEnhanced + 1)

\* a tick of the scheduler, the ticks not being counted
Forever_monitorInbox(p) == ListInbox(p) /\ UNCHANGED passes

\* the listing, messages.get for a message that has no Email yet, and
\* messages.modify succeeding
ListingSucceeds(p) ==
  Forever_monitorInbox(p) /\ batch'[p] = Take(SetToSeq(unread), MaxResultsEnhanced)
GetSucceeds(p) == Overlap_processEmail_findOne(p) /\ pc'[p] = "analyze"
ModifySucceeds(p) == Overlap_applyLabel(p) /\ Msg(p) \notin unread'

\* The mailbox after earlier passes in which the provider was failing: the
\* messages listed first, all but one, have their Email but are still UNREAD
\* (messages.modify failed for them in applyLabel); the two messages listed
\* last have no Email yet (messages.get failed for them).
InitStarve ==
  /\ variant = "enhanced" /\ initialized = TRUE
  /\ reply = [m \in Inbox |-> EnhancedOutput("general", "medium", FALSE, FALSE, "none")]
  /\ unread = Inbox
  /\ emails = [m \in 1..(MaxResultsEnhanced - 1) |-> EnhancedEmailDoc(m, reply[m])]
  /\ waitlist = <<>> /\ important = {} /\ outbox = [m \in Inbox |-> 0]
  /\ passes = 0
  /\ pc = [p \in Slots |-> "idle"]
  /\ batch = [p \in Slots |-> <<>>]
  /\ cur = [p \in Slots |-> 0]
  /\ analysis = [p \in Slots |-> NoAnalysis]
  /\ existedAtStart = [p \in Slots |-> FALSE]
  /\ classified = [p \in Slots |-> "no"]
  /\ created = [p \in Slots |-> FALSE]
  /\ lost = [p \in Slots |-> FALSE]
  /\ skipped = [p \in Slots |-> FALSE]
  /\ surfaced = [p \in Slots |-> "none"]
  /\ tick = [p \in Slots |-> 0]
  /\ failedAt = 0
  /\ labels = [n \in LabelNames |-> 1]
  /\ attempted = [m \in Inbox |-> {}]
  /\ InitReview

\* the next step of pass p, whatever its position
PassStep(p) ==
  \/ Forever_monitorInbox(p)
  \/ Overlap_processEmail_findOne(p)
  \/ Overlap_analyzeEmailWithAI(p)
  \/ Overlap_processEmail_save(p)
  \/ Overlap_applyLabel(p)

NextStarve == \E p \in Slots : PassStep(p)

\* setInterval keeps firing and every awaited call returns (weak fairness of
\* each step); the listing, messages.get and messages.modify, when called again
\* and again, eventually succeed (strong fairness of their success); the
\* classifier and the store always end in an analysis and an insert or a
\* duplicate-key error
FairStarve ==
  \A p \in Slots :
    /\ WF_vars(PassStep(p))
    /\ SF_vars(ListingSucceeds(p))
    /\ SF_vars(GetSucceeds(p))
    /\ SF_vars(ModifySucceeds(p))

SpecStarve == InitStarve /\ [][NextStarve]_vars /\ FairStarve

\* ----------------------------------------------------------------------
\* C28: under fairness of ticks, and with the provider, the classifier and the
\* store eventually succeeding, every unread message of the inbox is eventually
\* ingested (an Email with its messageId exists), even when stored messages
\* stay unread and keep filling the bounded is:unread listing.  (No message
\* arrives here and an Email is never removed, so this is: eventually every
\* message that is unread has its Email.)
C28_UnreadEventuallyIngested ==
  <>(\A m \in unread : findOne(m))

\* ----------------------------------------------------------------------
\* C29: after addResponse completes on an Email of any priority, the stored
\* Email has response.status = 'sent' and flags.requiresAction = false.
C29_AddResponseClearsAction ==
  [][\A r \in Reqs :
       StepOf(r, "addResponse")
         => /\ emails'[rid[r]].responseStatus = "sent"
            /\ ~emails'[rid[r]].requiresAction]_vars

\* ======================================================================
\* POST /api/auth/login and the lockout of the User model (models/User.js)
\* ======================================================================
MaxLoginAttempts == 5
MaxTime == 2

\* userSchema.virtual('isLocked'): !!(this.lockUntil && this.lockUntil > Date.now())
isLocked(u) == u.lockUntil # 0 /\ u.lockUntil > dateNow

\* incLoginAttempts, called on copy u: the update it sends.  An expired lock
\* gives $unset of both paths; else $inc of loginAttempts, with $set of
\* lockUntil two hours ahead when the copy's count + 1 reaches 5 and the copy is
\* not locked.  The update is applied to the stored document st atomically.
IncLoginAttempts(st, u) ==
  IF u.lockUntil # 0 /\ u.lockUntil < dateNow
  THEN [st EXCEPT !.loginAttempts = 0, !.lockUntil = 0]
  ELSE IF u.loginAttempts + 1 >= MaxLoginAttempts /\ ~isLocked(u)
  THEN [st EXCEPT !.loginAttempts = @ + 1, !.lockUntil = dateNow + 2]
  ELSE [st EXCEPT !.loginAttempts = @ + 1]

\* resetLoginAttempts: $unset of loginAttempts and lockUntil
ResetLoginAttempts(st) == [st EXCEPT !.loginAttempts = 0, !.lockUntil = 0]

\* the handler up to the password check: User.findByEmail loads the copy; a
\* locked copy is answered 401 at once (the user is active)
Login_findByEmail(r) ==
  /\ lpc[r] = "idle" /\ clock < MaxRequests
  /\ clock' = clock + 1
  /\ luser' = [luser EXCEPT ![r] = user]
  /\ lpc' = [lpc EXCEPT ![r] = IF isLocked(user) THEN "idle" ELSE "compare"]
  /\ UNCHANGED <<ingestVars, rpc, rop, rid, rdoc, rmod, rin, rstatus, last, promptVars,
                 user, dateNow>>

\* user.comparePassword(password): bcrypt.compare, awaited; the password of
\* the request is right or wrong
Login_comparePassword(r) ==
  /\ lpc[r] = "compare"
  /\ \E isValidPassword \in BOOLEAN :
       lpc' = [lpc EXCEPT ![r] = IF isValidPassword THEN "reset" ELSE "inc"]
  /\ UNCHANGED <<ingestVars, requestVars, promptVars, user, luser, dateNow>>

\* a wrong password: user.incLoginAttempts(), then 401
Login_incLoginAttempts(r) ==
  /\ lpc[r] = "inc"
  /\ user' = IncLoginAttempts(user, luser[r])
  /\ lpc' = [lpc EXCEPT ![r] = "idle"]
  /\ UNCHANGED <<ingestVars, requestVars, promptVars, luser, dateNow>>

\* the right password: user.resetLoginAttempts(), then the token is issued
Login_resetLoginAttempts(r) ==
  /\ lpc[r] = "reset"
  /\ user' = ResetLoginAttempts(user)
  /\ lpc' = [lpc EXCEPT ![r] = "idle"]
  /\ UNCHANGED <<ingestVars, requestVars, promptVars, luser, dateNow>>

\* more than the two hours of a lock pass
TimePasses ==
  /\ dateNow < MaxTime
  /\ dateNow' = dateNow + 3
  /\ UNCHANGED <<ingestVars, requestVars, promptVars, user, lpc, luser>>

\* a User after zero to four failed logins made one after the other: the
\* count is stored, no lock yet
InitLogin ==
  /\ variant = "fetch" /\ initialized = TRUE
  /\ reply = [m \in Messages |-> NoAnalysis]
  /\ unread = Messages
  /\ emails = <<>> /\ waitlist = <<>> /\ important = {} /\ outbox = [m \in Messages |-> 0]
  /\ passes = 0
  /\ pc = [p \in Slots |-> "idle"]
  /\ batch = [p \in Slots |-> <<>>]
  /\ cur = [p \in Slots |-> 0]
  /\ analysis = [p \in Slots |-> NoAnalysis]
  /\ existedAtStart = [p \in Slots |-> FALSE]
  /\ classified = [p \in Slots |-> "no"]
  /\ created = [p \in Slots |-> FALSE]
  /\ lost = [p \in Slots |-> FALSE]
  /\ skipped = [p \in Slots |-> FALSE]
  /\ surfaced = [p \in Slots |-> "none"]
  /\ tick = [p \in Slots |-> 0]
  /\ failedAt = 0
  /\ labels = [n \in LabelNames |-> 1]
  /\ attempted = [m \in Messages |-> {}]
  /\ InitRequests
  /\ bodyLen = 0 /\ promptBody = 0 /\ prompted = "none"
  /\ user \in {[NewUser EXCEPT !.loginAttempts = n] : n \in 0..(MaxLoginAttempts - 1)}
  /\ lpc = [r \in Reqs |-> "idle"]
  /\ luser = [r \in Reqs |-> NewUser]
  /\ dateNow = 0

NextLogin ==
  \/ TimePasses
  \/ \E r \in Reqs :
       \/ Login_findByEmail(r)
       \/ Login_comparePassword(r)
       \/ Login_incLoginAttempts(r)
       \/ Login_resetLoginAttempts(r)

SpecLogin == InitLogin /\ [][NextLogin]_vars

\* ----------------------------------------------------------------------
\* C30: after any interleaving of failed login requests for one user,
\* concurrent requests acting on their own stale copies included, a user whose
\* stored loginAttempts has reached 5 has lockUntil set.
C30_FiveAttemptsLocked ==
  user.loginAttempts >= MaxLoginAttempts => user.lockUntil # 0

====
